---- MODULE Spec2Model ----
(***************************************************************************)
(* Rental System API (main.py): the equipment catalogue, the booking       *)
(* engine of POST /bookings/, the read endpoints and the Instagram webhook.*)
(*                                                                         *)
(* Dates are day numbers (date subtraction .days is integer difference),   *)
(* prices are bounded integers.  The passthrough columns that no branch of *)
(* the code reads (description, customer_name, customer_email) are left    *)
(* out of the records.                                                     *)
(*                                                                         *)
(* Each request handler runs in its own database session.  A handler is    *)
(* one action, except create_booking, which is split where another         *)
(* session's commit can fall between its statements: the overlap query     *)
(* (line 122) and the commit (line 129).  The equipment query of line 118  *)
(* reads a row that no operation updates or deletes, so it is taken in the *)
(* same step as the overlap query.  Sessions run at the default isolation  *)
(* of the engine: a query reads what was committed when it runs and a      *)
(* commit never fails.                                                     *)
(*                                                                         *)
(* last is the HTTP response of the handler that finished most recently:   *)
(* operation, status code, the request it answers and the response body.   *)
(***************************************************************************)
EXTENDS Integers, Sequences, FiniteSets, TLC

\* ---------------------------------------------------------------- bounds
MaxDay == 2
MaxEquipment == 2
MaxBookings == 2

Days == 1..MaxDay
Procs == {"s1", "s2"}

None == "<None>"

\* ------------------------------------------------------------ input sets
\* Bodies of POST /equipment/ (EquipmentCreate): the price list the
\* administrator registers, item after item, starting over at its end.
EquipmentInputs ==
  << [name |-> <<"S","o","n","y">>, category |-> <<"C","á","m","a","r","a","s">>,
      price_per_day |-> 100, image_url |-> "http://img/sony.jpg"],
     [name |-> <<"l","e","n","t","e">>, category |-> <<"l","e","n","t","e","s">>,
      price_per_day |-> 35, image_url |-> None] >>

\* The body of the n-th POST /equipment/.
EquipmentInput(n) == EquipmentInputs[((n - 1) % Len(EquipmentInputs)) + 1]

\* Bodies of POST /bookings/ (BookingCreate).
BookingInputs ==
  [equipment_id : 1..MaxEquipment, start_date : Days, end_date : Days]

\* Line 143: META_ACCESS_TOKEN of the environment, unset or set.
AccessTokens == {None, "EAAG-token"}

Skips == {0, 1}
Limits == {1, 100}

VARIABLES equipment, bookings, pc, db_booking, last, META_ACCESS_TOKEN, publisher

vars == <<equipment, bookings, pc, db_booking, last, META_ACCESS_TOKEN, publisher>>

\* ------------------------------------------------------- database tables
\* EquipmentDB(**equipment.dict()) with its autoincrement primary key.
EquipmentDB(e, id) ==
  [id |-> id, name |-> e.name, category |-> e.category,
   price_per_day |-> e.price_per_day, image_url |-> e.image_url]

\* db.query(EquipmentDB).filter(EquipmentDB.id == id).first()
EquipmentById(eqs, id) ==
  IF \E i \in DOMAIN eqs : eqs[i].id = id
    THEN eqs[CHOOSE i \in DOMAIN eqs : eqs[i].id = id]
    ELSE None

EquipmentExists(eqs, id) == \E i \in DOMAIN eqs : eqs[i].id = id

\* .offset(skip).limit(limit).all()
RECURSIVE Take(_, _)
Take(s, n) == IF n = 0 \/ s = <<>> THEN <<>> ELSE <<Head(s)>> \o Take(Tail(s), n - 1)

RECURSIVE Drop(_, _)
Drop(s, n) == IF n = 0 \/ s = <<>> THEN s ELSE Drop(Tail(s), n - 1)

Page(rows, skip, limit) == Take(Drop(rows, skip), limit)

\* ------------------------------------------------------- booking engine
\* Mutant: the ranges compared exclusively, so that touching ranges pass.
Overlaps_exclusive(b, r) ==
  /\ b.equipment_id = r.equipment_id
  /\ b.end_date > r.start_date
  /\ b.start_date < r.end_date

\* Mutant: the equipment_id filter forgotten.
Overlaps_anyEquipment(b, r) ==
  /\ b.end_date >= r.start_date
  /\ b.start_date <= r.end_date

\* The filter of the overlap query, line 122.
Overlaps(b, r) ==
  /\ b.equipment_id = r.equipment_id
  /\ b.end_date >= r.start_date
  /\ b.start_date <= r.end_date

OverlapCount(bks, r) == Cardinality({i \in DOMAIN bks : Overlaps(bks[i], r)})

\* Mutant: the date-range check of line 120 left out.
BookingStatus_noRangeCheck(eqs, bks, r) ==
  IF ~EquipmentExists(eqs, r.equipment_id) THEN 404
  ELSE IF OverlapCount(bks, r) > 0 THEN 409
  ELSE 200

\* Mutant: the date-range check made before the existence check.
BookingStatus_rangeFirst(eqs, bks, r) ==
  IF r.start_date > r.end_date THEN 400
  ELSE IF ~EquipmentExists(eqs, r.equipment_id) THEN 404
  ELSE IF OverlapCount(bks, r) > 0 THEN 409
  ELSE 200

\* Mutant: the overlap check made before the date-range check.
BookingStatus_overlapFirst(eqs, bks, r) ==
  IF ~EquipmentExists(eqs, r.equipment_id) THEN 404
  ELSE IF OverlapCount(bks, r) > 0 THEN 409
  ELSE IF r.start_date > r.end_date THEN 400
  ELSE 200

\* The three checks of create_booking in the order of lines 118-123.
BookingStatus(eqs, bks, r) ==
  IF ~EquipmentExists(eqs, r.equipment_id) THEN 404
  ELSE IF r.start_date > r.end_date THEN 400
  ELSE IF OverlapCount(bks, r) > 0 THEN 409
  ELSE 200

\* Mutant: the day count without the inclusive + 1.
NumDays_exclusive(r) == r.end_date - r.start_date

\* Line 125.
NumDays(r) == (r.end_date - r.start_date) + 1

\* Line 126.
TotalPrice(eqs, r) == NumDays(r) * EquipmentById(eqs, r.equipment_id).price_per_day

\* Line 127: the BookingDB object, its id not yet assigned.
NewBooking(eqs, r) ==
  [id |-> 0, equipment_id |-> r.equipment_id, start_date |-> r.start_date,
   end_date |-> r.end_date, total_price |-> TotalPrice(eqs, r), status |-> "confirmed"]

\* Mutant: the insert overwrites the newest row instead of adding one.
Persist_overwrite(bks, b) ==
  IF bks = <<>> THEN <<[b EXCEPT !.id = 1]>>
  ELSE [bks EXCEPT ![Len(bks)] = [b EXCEPT !.id = Len(bks)]]

\* Mutant: the row is added twice.
Persist_duplicate(bks, b) ==
  Append(Append(bks, [b EXCEPT !.id = Len(bks) + 1]), [b EXCEPT !.id = Len(bks) + 2])

\* Lines 128-129: the insert, the primary key assigned by the table.
Persist(bks, b) == Append(bks, [b EXCEPT !.id = Len(bks) + 1])

\* ------------------------------------------------------ Instagram webhook
\* Line 142: the default of INSTAGRAM_VERIFY_TOKEN.
VERIFY_TOKEN == "un-token-muy-seguro"

\* Query parameters of GET /webhook; None is an absent parameter.
Modes == {None, "subscribe", "unsubscribe"}
Tokens == {None, VERIFY_TOKEN, "otro-token"}
Challenges == {None, "XYZ"}

\* starlette Response.render: content None is sent as an empty body.
Render(content) == IF content = None THEN "" ELSE content

\* Mutant: the mode not checked.
VerifyStatus_tokenOnly(mode, token) ==
  IF token = VERIFY_TOKEN THEN 200 ELSE 403

\* Lines 172-174.
VerifyStatus(mode, token) ==
  IF mode = "subscribe" /\ token = VERIFY_TOKEN THEN 200 ELSE 403

\* JSON values of a webhook body, tagged with their Python type.  Strings
\* that the handler searches are sequences of characters.
JD(m) == [t |-> "dict", v |-> m]
JL(s) == [t |-> "list", v |-> s]
JS(c) == [t |-> "str", v |-> c]
JN(n) == [t |-> "num", v |-> n]
JNull == [t |-> "null", v |-> 0]

Ok(v) == [exc |-> "", val |-> v]
Raise(e) == [exc |-> e, val |-> JNull]

\* The characters of the two keys tested with "in", line 184.
KeyChars(k) ==
  IF k = "message" THEN <<"m","e","s","s","a","g","e">> ELSE <<"t","e","x","t">>

IsSubstring(k, s) ==
  \E i \in 0..(Len(s) - Len(k)) : SubSeq(s, i + 1, i + Len(k)) = k

\* x[k] for a string key k.
GetKey(x, k) ==
  IF x.t = "dict"
    THEN IF k \in DOMAIN x.v THEN Ok(x.v[k]) ELSE Raise("KeyError")
    ELSE Raise("TypeError")

\* x[i] for an integer i >= 0.
GetIndex(x, i) ==
  IF x.t = "dict" THEN Raise("KeyError")
  ELSE IF x.t = "list"
    THEN IF i < Len(x.v) THEN Ok(x.v[i + 1]) ELSE Raise("IndexError")
  ELSE IF x.t = "str"
    THEN IF i < Len(x.v) THEN Ok(JS(<<x.v[i + 1]>>)) ELSE Raise("IndexError")
  ELSE Raise("TypeError")

\* k in x for a string key k.
Contains(k, x) ==
  IF x.t = "dict" THEN Ok(k \in DOMAIN x.v)
  ELSE IF x.t = "list"
    THEN Ok(\E i \in DOMAIN x.v : x.v[i].t = "str" /\ x.v[i].v = KeyChars(k))
  ELSE IF x.t = "str" THEN Ok(IsSubstring(KeyChars(k), x.v))
  ELSE Raise("TypeError")

Uppers == <<"A","B","C","D","E","F","G","H","I","J","K","L","M","N","O","P",
            "Q","R","S","T","U","V","W","X","Y","Z","Á">>
Lowers == <<"a","b","c","d","e","f","g","h","i","j","k","l","m","n","o","p",
            "q","r","s","t","u","v","w","x","y","z","á">>

LowerChar(c) ==
  IF \E i \in DOMAIN Uppers : Uppers[i] = c
    THEN Lowers[CHOOSE i \in DOMAIN Uppers : Uppers[i] = c]
    ELSE c

\* str.lower()
Lower(s) == [i \in DOMAIN s |-> LowerChar(s[i])]

\* str.split(): the maximal runs of non-blank characters.
RECURSIVE SplitAcc(_, _, _)
SplitAcc(s, cur, acc) ==
  IF s = <<>> THEN IF cur = <<>> THEN acc ELSE Append(acc, cur)
  ELSE IF Head(s) = " "
    THEN SplitAcc(Tail(s), <<>>, IF cur = <<>> THEN acc ELSE Append(acc, cur))
    ELSE SplitAcc(Tail(s), Append(cur, Head(s)), acc)

Split(s) == SplitAcc(s, <<>>, <<>>)

\* EquipmentDB.name.ilike("%word%"), for a word without wildcard characters.
ILike(name, word) == IsSubstring(Lower(word), Lower(name))

\* db.query(EquipmentDB).filter(name.ilike(...)).first(), in primary-key order.
MatchesWord(eqs, word) == \E i \in DOMAIN eqs : ILike(eqs[i].name, word)

EquipmentByWord(eqs, word) ==
  IF MatchesWord(eqs, word)
    THEN eqs[CHOOSE i \in DOMAIN eqs :
               /\ ILike(eqs[i].name, word)
               /\ \A j \in DOMAIN eqs : ILike(eqs[j].name, word) => i <= j]
    ELSE None

\* The keyword lists of lines 189, 196 and 198.
PriceKeywords ==
  << <<"p","r","e","c","i","o">>, <<"c","o","s","t","o">>, <<"c","u","á","n","t","o">> >>
AvailabilityKeywords ==
  << <<"d","i","s","p","o","n","i","b","l","e">>,
     <<"d","i","s","p","o","n","i","b","i","l","i","d","a","d">> >>
GreetingKeywords ==
  << <<"h","o","l","a">>, <<"i","n","f","o">>, <<"s","a","l","u","d","o","s">> >>

AnyKeyword(kws, text) == \E i \in DOMAIN kws : IsSubstring(kws[i], text)

Reply(kind, name, price) == [kind |-> kind, name |-> name, price |-> price]

\* Line 190: the words of the message that match some equipment name.
EquipmentNameGuess(eqs, text) ==
  SelectSeq(Split(text), LAMBDA w : MatchesWord(eqs, w))

\* Mutant: the greeting rule tried first.
ResponseText_greetingFirst(eqs, text) ==
  IF AnyKeyword(GreetingKeywords, text) THEN Reply("greeting", <<>>, 0)
  ELSE IF AnyKeyword(PriceKeywords, text)
    THEN LET guess == EquipmentNameGuess(eqs, text) IN
         IF guess # <<>>
           THEN LET e == EquipmentByWord(eqs, guess[1]) IN
                Reply("price", e.name, e.price_per_day)
           ELSE Reply("ask_name", <<>>, 0)
  ELSE IF AnyKeyword(AvailabilityKeywords, text) THEN Reply("availability", <<>>, 0)
  ELSE Reply("fallback", <<>>, 0)

\* Lines 186-199: the reply for a lower-cased message text.
ResponseText(eqs, text) ==
  IF AnyKeyword(PriceKeywords, text)
    THEN LET guess == EquipmentNameGuess(eqs, text) IN
         IF guess # <<>>
           THEN LET e == EquipmentByWord(eqs, guess[1]) IN
                Reply("price", e.name, e.price_per_day)
           ELSE Reply("ask_name", <<>>, 0)
  ELSE IF AnyKeyword(AvailabilityKeywords, text) THEN Reply("availability", <<>>, 0)
  ELSE IF AnyKeyword(GreetingKeywords, text) THEN Reply("greeting", <<>>, 0)
  ELSE Reply("fallback", <<>>, 0)

\* What the Graph API call of line 161 can do.
SendOutcomes == {"ok", "http_error", "connection_error"}

\* send_instagram_message, lines 145-165: the exception it lets escape.  A
\* connection error or timeout carries no response, so e.response.text of
\* line 165 raises AttributeError.
SendRaises(token, net) ==
  IF token = None THEN ""
  ELSE IF net = "connection_error" THEN "AttributeError"
  ELSE ""

\* The outcome of one send_instagram_message call as the environment sees it.
Dispatch(token, to, reply, net) ==
  [to |-> to, reply |-> reply,
   how |-> IF token = None THEN "simulated" ELSE net]

\* What the try block did: the exception it raised ("" for none) and the
\* send_instagram_message calls it made, in order.
Outcome(exc, sent) == [exc |-> exc, sent |-> sent]

\* Lines 184-202, for the message object and the sender id of lines 181-182.
HandleMessage(eqs, token, net, message, sender_id) ==
  LET hasMessage == Contains("message", message) IN
  IF hasMessage.exc # "" THEN Outcome(hasMessage.exc, <<>>)
  ELSE IF ~hasMessage.val THEN Outcome("", <<>>)
  ELSE
  LET m == GetKey(message, "message") IN
  IF m.exc # "" THEN Outcome(m.exc, <<>>)
  ELSE
  LET hasText == Contains("text", m.val) IN
  IF hasText.exc # "" THEN Outcome(hasText.exc, <<>>)
  ELSE IF ~hasText.val THEN Outcome("", <<>>)
  ELSE
  LET t == GetKey(m.val, "text") IN
  IF t.exc # "" THEN Outcome(t.exc, <<>>)
  ELSE IF t.val.t # "str" THEN Outcome("AttributeError", <<>>)
  ELSE
  LET reply == ResponseText(eqs, Lower(t.val.v)) IN
  Outcome(SendRaises(token, net), <<Dispatch(token, sender_id, reply, net)>>)

\* Lines 181-202: the body of the try block.
TryBlock(eqs, token, net, body) ==
  LET e1 == GetKey(body, "entry") IN
  IF e1.exc # "" THEN Outcome(e1.exc, <<>>) ELSE
  LET e2 == GetIndex(e1.val, 0) IN
  IF e2.exc # "" THEN Outcome(e2.exc, <<>>) ELSE
  LET e3 == GetKey(e2.val, "messaging") IN
  IF e3.exc # "" THEN Outcome(e3.exc, <<>>) ELSE
  LET message == GetIndex(e3.val, 0) IN
  IF message.exc # "" THEN Outcome(message.exc, <<>>) ELSE
  LET s1 == GetKey(message.val, "sender") IN
  IF s1.exc # "" THEN Outcome(s1.exc, <<>>) ELSE
  LET sender_id == GetKey(s1.val, "id") IN
  IF sender_id.exc # "" THEN Outcome(sender_id.exc, <<>>) ELSE
  HandleMessage(eqs, token, net, message.val, sender_id.val)

\* Line 204: the exceptions the handler absorbs.
Caught == {"KeyError", "IndexError", "TypeError"}

\* Lines 204-207: 200 unless an exception escapes the except clause, which
\* the framework answers with 500.
ReceiveStatus(exc) == IF exc = "" \/ exc \in Caught THEN 200 ELSE 500

\* Bodies of POST /webhook.
SenderObj == JD([id |-> JS(<<"4","2">>)])
Envelope(msg) == JD([entry |-> JL(<< JD([messaging |-> JL(<<msg>>)]) >>)])
TextEvent(text) == Envelope(JD([sender |-> SenderObj, message |-> JD([text |-> text])]))

Envelopes ==
  << TextEvent(JS(<<"H","o","l","a">>)),
     TextEvent(JS(<<"P","R","E","C","I","O"," ","s","o","n","y">>)),
     TextEvent(JS(<<"h","o","l","a"," ","c","o","s","t","o">>)),
     TextEvent(JS(<<"d","i","s","p","o","n","i","b","l","e","?">>)),
     TextEvent(JS(<<"g","r","a","c","i","a","s">>)),
     TextEvent(JN(5)),
     TextEvent(JNull),
     Envelope(JD([sender |-> SenderObj])),
     Envelope(JD([sender |-> SenderObj, message |-> JD([attachments |-> JL(<<>>)])])),
     Envelope(JD([sender |-> SenderObj, message |-> JS(<<"t","e","x","t","o">>)])),
     Envelope(JD([sender |-> SenderObj, message |-> JNull])),
     Envelope(JD([message |-> JD([text |-> JS(<<"h","o","l","a">>)])])),
     JD([entry |-> JL(<<>>)]),
     JD([object |-> JS(<<"p","a","g","e">>)]),
     JL(<<>>),
     JNull,
     TextEvent(JS(<<"i","n","f","o"," ","d","i","s","p","o","n","i","b","i","l","i","d","a","d">>)) >>

Resp(op, status, req, body) == [op |-> op, status |-> status, req |-> req, body |-> body]

\* ------------------------------------------------- publisher (publisher.py)
\* Line 89: the category of each weekday, Monday first.
categories ==
  << <<"C","á","m","a","r","a","s">>, <<"L","e","n","t","e","s">>,
     <<"I","l","u","m","i","n","a","c","i","ó","n">>, <<"S","o","n","i","d","o">>,
     <<"A","c","c","e","s","o","r","i","o","s">>,
     <<"C","á","m","a","r","a","s">>, <<"L","e","n","t","e","s">> >>

\* datetime.now().weekday()
Weekdays == 0..6

\* Line 90.
TodayCategory(day) == categories[day + 1]

\* The defaults of GET /equipment/, main.py line 107.
DefaultSkip == 0
DefaultLimit == 100

\* Line 22 of publisher.py: the items whose category is the requested one,
\* letter case aside.
FilterCategory(all_equipment, category) ==
  SelectSeq(all_equipment, LAMBDA eq : Lower(eq.category) = Lower(category))

\* get_equipment_from_api, lines 15-26: the GET answers (ok) or raises a
\* RequestException, which the function turns into an empty list.
GetEquipmentFromApi(eqs, ok, filtered, category) ==
  IF ~ok THEN <<>>
  ELSE IF filtered THEN FilterCategory(Page(eqs, DefaultSkip, DefaultLimit), category)
  ELSE Page(eqs, DefaultSkip, DefaultLimit)

\* What the create-container call of lines 61-63 can do: answer with an id,
\* answer without one (KeyError), answer with an error status, or fail
\* without an answer.
CreateOutcomes == {"ok", "no_id", "http_error", "connection_error"}

\* Mutant: the return of line 68 missing.
AfterCreate_noReturn(out) ==
  IF out \in {"ok", "http_error"} THEN "publish" ELSE "crashed"

\* Lines 60-68: where post_to_instagram goes after the create-container
\* call.  An HTTP error is logged and the routine returns; a KeyError, or
\* the AttributeError of e.response.text on an exception without
\* response, ends the script.
AfterCreate(out) ==
  IF out = "ok" THEN "publish"
  ELSE IF out = "http_error" THEN "done"
  ELSE "crashed"

\* Lines 76-83.
AfterPublish(out) ==
  IF out \in {"ok", "http_error"} THEN "done" ELSE "crashed"

\* The script before it runs.  calls is the list of Graph API calls of the
\* current run; generate_caption only formats text and is left out.
PublisherIdle ==
  [pc |-> "idle", day |-> 0, configured |-> FALSE, items |-> <<>>,
   fell_back |-> FALSE, selected |-> <<>>, calls |-> <<>>, creation |-> "none"]

\* ------------------------------------------------------------------ Init
Init ==
  /\ equipment = <<>>
  /\ bookings = <<>>
  /\ pc = [p \in Procs |-> "idle"]
  /\ db_booking = [p \in Procs |-> None]
  /\ last = Resp("none", 0, None, None)
  /\ META_ACCESS_TOKEN \in AccessTokens
  /\ publisher = PublisherIdle

\* --------------------------------------------------------------- actions
read_root ==
  /\ last' = Resp("read_root", 200, None, None)
  /\ UNCHANGED <<equipment, bookings, pc, db_booking, META_ACCESS_TOKEN, publisher>>

create_equipment ==
  /\ Len(equipment) < MaxEquipment
  /\ equipment' = Append(equipment, EquipmentDB(EquipmentInput(Len(equipment) + 1), Len(equipment) + 1))
  /\ last' = Resp("create_equipment", 200, None, equipment'[Len(equipment')])
  /\ UNCHANGED <<bookings, pc, db_booking, META_ACCESS_TOKEN, publisher>>

read_equipment_list ==
  \E skip \in Skips, limit \in Limits :
    /\ last' = Resp("read_equipment_list", 200, <<skip, limit>>, Page(equipment, skip, limit))
    /\ UNCHANGED <<equipment, bookings, pc, db_booking, META_ACCESS_TOKEN, publisher>>

read_equipment ==
  \E id \in 1..MaxEquipment :
    /\ last' = IF EquipmentExists(equipment, id)
                 THEN Resp("read_equipment", 200, id, EquipmentById(equipment, id))
                 ELSE Resp("read_equipment", 404, id, None)
    /\ UNCHANGED <<equipment, bookings, pc, db_booking, META_ACCESS_TOKEN, publisher>>

\* Sessions between the overlap query and the commit of create_booking.
InFlight == Cardinality({p \in Procs : pc[p] = "commit"})

\* create_booking, lines 118-127: the two queries, the checks and the price.
create_booking_check(p) ==
  \E r \in BookingInputs :
    /\ pc[p] = "idle"
    /\ LET st == BookingStatus(equipment, bookings, r) IN
         IF st = 200
           THEN /\ Len(bookings) + InFlight < MaxBookings
                /\ pc' = [pc EXCEPT ![p] = "commit"]
                /\ db_booking' = [db_booking EXCEPT ![p] = [req |-> r, row |-> NewBooking(equipment, r)]]
                /\ UNCHANGED last
           ELSE /\ last' = Resp("create_booking", st, r, None)
                /\ UNCHANGED <<pc, db_booking, META_ACCESS_TOKEN, publisher>>
    /\ UNCHANGED <<equipment, bookings, META_ACCESS_TOKEN, publisher>>

\* create_booking, lines 128-131: add, commit, refresh, return.
create_booking_commit(p) ==
  /\ pc[p] = "commit"
  /\ bookings' = Persist(bookings, db_booking[p].row)
  /\ last' = Resp("create_booking", 200, db_booking[p].req, bookings'[Len(bookings')])
  /\ pc' = [pc EXCEPT ![p] = "idle"]
  /\ db_booking' = [db_booking EXCEPT ![p] = None]
  /\ UNCHANGED <<equipment, META_ACCESS_TOKEN, publisher>>

\* Mutant: the pagination applied to the table instead of the result.
read_bookings_consuming ==
  \E skip \in Skips, limit \in Limits :
    /\ last' = Resp("read_bookings", 200, <<skip, limit>>, Page(bookings, skip, limit))
    /\ bookings' = Page(bookings, skip, limit)
    /\ UNCHANGED <<equipment, pc, db_booking, META_ACCESS_TOKEN, publisher>>

read_bookings ==
  \E skip \in Skips, limit \in Limits :
    /\ last' = Resp("read_bookings", 200, <<skip, limit>>, Page(bookings, skip, limit))
    /\ UNCHANGED <<equipment, bookings, pc, db_booking, META_ACCESS_TOKEN, publisher>>

\* The catalogues POST /equipment/ can build, and receive_message tabulated
\* over them once (TLC evaluates a constant definition a single time).
Catalogues ==
  { [k \in 1..n |-> EquipmentDB(EquipmentInput(k), k)] : n \in 0..MaxEquipment }

ReceiveTable ==
  [ eqs \in Catalogues, tok \in AccessTokens, net \in SendOutcomes, i \in DOMAIN Envelopes |->
      TryBlock(eqs, tok, net, Envelopes[i]) ]

verify_webhook ==
  \E mode \in Modes, token \in Tokens, challenge \in Challenges :
    /\ last' = LET st == VerifyStatus(mode, token) IN
               Resp("verify_webhook", st,
                    [mode |-> mode, token |-> token, challenge |-> challenge],
                    IF st = 200 THEN Render(challenge) ELSE "Error de verificación")
    /\ UNCHANGED <<equipment, bookings, pc, db_booking, META_ACCESS_TOKEN, publisher>>

receive_message ==
  \E i \in DOMAIN Envelopes, net \in SendOutcomes :
    /\ last' = LET out == ReceiveTable[equipment, META_ACCESS_TOKEN, net, i] IN
               Resp("receive_message", ReceiveStatus(out.exc), i, out)
    /\ UNCHANGED <<equipment, bookings, pc, db_booking, META_ACCESS_TOKEN, publisher>>

PublisherRunning == publisher.pc \notin {"idle", "done", "crashed"}

\* Lines 86-92 of publisher.py: one run of the script starts.
pub_start ==
  \E day \in Weekdays, configured \in BOOLEAN :
    /\ ~PublisherRunning
    /\ publisher' = [PublisherIdle EXCEPT !.pc = "fetch", !.day = day, !.configured = configured]
    /\ UNCHANGED <<equipment, bookings, pc, db_booking, last, META_ACCESS_TOKEN>>

\* Line 95: the items of today's category.
pub_get_category ==
  \E ok \in BOOLEAN :
    /\ publisher.pc = "fetch"
    /\ LET items == GetEquipmentFromApi(equipment, ok, TRUE, TodayCategory(publisher.day)) IN
         publisher' = [publisher EXCEPT !.items = items,
                         !.pc = IF items = <<>> THEN "fallback" ELSE "choose"]
    /\ UNCHANGED <<equipment, bookings, pc, db_booking, last, META_ACCESS_TOKEN>>

\* Lines 97-99 and 115-116: the whole catalogue instead.
pub_get_all ==
  \E ok \in BOOLEAN :
    /\ publisher.pc = "fallback"
    /\ LET items == GetEquipmentFromApi(equipment, ok, FALSE, <<>>) IN
         publisher' = [publisher EXCEPT !.items = items, !.fell_back = TRUE,
                         !.pc = IF items = <<>> THEN "done" ELSE "choose"]
    /\ UNCHANGED <<equipment, bookings, pc, db_booking, last, META_ACCESS_TOKEN>>

\* Lines 101-106: random.choice of an item.
pub_choose ==
  \E i \in DOMAIN publisher.items :
    /\ publisher.pc = "choose"
    /\ publisher' = [publisher EXCEPT !.selected = <<publisher.items[i]>>, !.pc = "post"]
    /\ UNCHANGED <<equipment, bookings, pc, db_booking, last, META_ACCESS_TOKEN>>

\* Lines 110-114 and 42-50: no image, or no credentials, and nothing is
\* posted.
pub_post ==
  /\ publisher.pc = "post"
  /\ publisher' = [publisher EXCEPT !.pc =
        IF publisher.selected[1].image_url = None THEN "done"
        ELSE IF ~publisher.configured THEN "done"
        ELSE "create"]
  /\ UNCHANGED <<equipment, bookings, pc, db_booking, last, META_ACCESS_TOKEN>>

\* Lines 54-68: the create-container call.
pub_create_container ==
  \E out \in CreateOutcomes :
    /\ publisher.pc = "create"
    /\ publisher' = [publisher EXCEPT !.calls = Append(@, "create"),
                        !.creation = out, !.pc = AfterCreate(out)]
    /\ UNCHANGED <<equipment, bookings, pc, db_booking, last, META_ACCESS_TOKEN>>

\* Lines 71-83: the publish-container call.
pub_publish_container ==
  \E out \in SendOutcomes :
    /\ publisher.pc = "publish"
    /\ publisher' = [publisher EXCEPT !.calls = Append(@, "publish"), !.pc = AfterPublish(out)]
    /\ UNCHANGED <<equipment, bookings, pc, db_booking, last, META_ACCESS_TOKEN>>

Next ==
  \/ read_root
  \/ create_equipment
  \/ read_equipment_list
  \/ read_equipment
  \/ \E p \in Procs : create_booking_check(p)
  \/ \E p \in Procs : create_booking_commit(p)
  \/ read_bookings
  \/ verify_webhook
  \/ receive_message

\* Every operation of the HTTP surface, with concurrent sessions.
Spec == Init /\ [][Next]_vars

\* The operations that write the two stores, with concurrent sessions.
BookingNext ==
  \/ create_equipment
  \/ \E p \in Procs : create_booking_check(p)
  \/ \E p \in Procs : create_booking_commit(p)

\* No operation of the booking engine reads the messaging credential: its
\* specifications start with the credential unset.
BookingInit == Init /\ META_ACCESS_TOKEN = None

BookingSpec == BookingInit /\ [][BookingNext]_vars

\* The same operations one at a time: a call starts only when no
\* create_booking is between its overlap query and its commit, so one
\* session serves every call.
SeqNext ==
  \/ (InFlight = 0 /\ create_equipment)
  \/ (InFlight = 0 /\ create_booking_check("s1"))
  \/ create_booking_commit("s1")

SeqSpec == BookingInit /\ [][SeqNext]_vars

\* The webhook adapter next to catalogue changes.
WebhookNext ==
  \/ create_equipment
  \/ verify_webhook
  \/ receive_message

WebhookSpec == Init /\ [][WebhookNext]_vars

\* The publisher script, run again and again, with the catalogue changing
\* only between its runs.
PublisherNext ==
  \/ (~PublisherRunning /\ create_equipment)
  \/ pub_start
  \/ pub_get_category
  \/ pub_get_all
  \/ pub_choose
  \/ pub_post
  \/ pub_create_container
  \/ pub_publish_container

PublisherSpec == BookingInit /\ [][PublisherNext]_vars

\* ----------------------------------------------------------------- claims
IsBookingCall == last.op = "create_booking"

\* The inclusive-overlap predicate of the data model, on two date ranges.
RangesIntersect(s1, e1, s2, e2) == e1 >= s2 /\ s1 <= e2

\* Booking i was already persisted when the call answered by last ran.
PriorBooking(i) == ~(last.status = 200 /\ bookings[i].id = last.body.id)

\* Some booking persisted before the last call has the equipment of its
\* request and a range that intersects the requested one.
PriorOverlap ==
  \E i \in DOMAIN bookings :
    /\ PriorBooking(i)
    /\ bookings[i].equipment_id = last.req.equipment_id
    /\ RangesIntersect(bookings[i].start_date, bookings[i].end_date,
                       last.req.start_date, last.req.end_date)

\* C1: of concurrent create_booking requests for the same equipment with
\* overlapping inclusive ranges at most one succeeds: no two persisted
\* bookings of one equipment intersect.
C1_AtMostOneConcurrentSuccess ==
  \A i, j \in DOMAIN bookings :
    (i # j /\ bookings[i].equipment_id = bookings[j].equipment_id)
      => ~RangesIntersect(bookings[i].start_date, bookings[i].end_date,
                          bookings[j].start_date, bookings[j].end_date)

\* C2: with calls run one at a time, no two persisted bookings of the same
\* equipment have intersecting inclusive ranges, and a valid attempt that
\* intersects an earlier booking ends with Conflict (409).
C2_SequentialNoDoubleBooking ==
  /\ \A i \in DOMAIN bookings : \A j \in DOMAIN bookings :
       (i < j /\ bookings[i].equipment_id = bookings[j].equipment_id)
         => \/ bookings[i].end_date < bookings[j].start_date
            \/ bookings[j].end_date < bookings[i].start_date
  /\ (IsBookingCall /\ last.req.start_date <= last.req.end_date /\ PriorOverlap)
       => last.status = 409

C2_Witness ==
  /\ IsBookingCall /\ last.status = 409
  /\ Len(bookings) = 2
  /\ bookings[1].equipment_id = bookings[2].equipment_id

\* C3: a create_booking request on existing equipment with start <= end ends
\* with Conflict (409) exactly when an earlier booking of that equipment
\* intersects the requested range inclusively, and with success otherwise.
C3_ConflictIffOverlap ==
  (/\ IsBookingCall
   /\ EquipmentExists(equipment, last.req.equipment_id)
   /\ last.req.start_date <= last.req.end_date)
    => /\ last.status \in {200, 409}
       /\ last.status = 409 <=> PriorOverlap

\* A request starting on the end_date of the only booking it touches is
\* rejected while a booking of other equipment exists.
C3_Witness ==
  /\ IsBookingCall /\ last.status = 409
  /\ \E i \in DOMAIN bookings :
       /\ bookings[i].equipment_id = last.req.equipment_id
       /\ bookings[i].end_date = last.req.start_date
       /\ bookings[i].start_date < last.req.start_date
  /\ \E i \in DOMAIN bookings : bookings[i].equipment_id # last.req.equipment_id

\* C4: every persisted booking costs (end - start + 1) days at the
\* price_per_day of the equipment it references.
C4_TotalPrice ==
  \A i \in DOMAIN bookings :
    \E k \in DOMAIN equipment :
      /\ equipment[k].id = bookings[i].equipment_id
      /\ bookings[i].total_price =
           (bookings[i].end_date - bookings[i].start_date + 1) * equipment[k].price_per_day

\* A one-day booking and a longer one are both persisted.
C4_Witness ==
  /\ \E i \in DOMAIN bookings : bookings[i].start_date = bookings[i].end_date
  /\ \E i \in DOMAIN bookings : bookings[i].start_date < bookings[i].end_date

\* C5: every persisted booking has start_date <= end_date.
C5_StartNotAfterEnd ==
  \A i \in DOMAIN bookings : bookings[i].start_date <= bookings[i].end_date

\* A booking is persisted and a request with start > end was just refused.
C5_Witness ==
  /\ Len(bookings) > 0
  /\ IsBookingCall /\ last.status = 400

\* C6: create_booking for an equipment id that does not exist ends with
\* NotFound (404) whatever the dates are.
C6_NotFoundFirst ==
  (IsBookingCall /\ ~EquipmentExists(equipment, last.req.equipment_id))
    => last.status = 404

C6_Witness ==
  /\ IsBookingCall /\ last.status = 404
  /\ last.req.start_date > last.req.end_date
  /\ Len(equipment) > 0

\* C7 as stated: create_booking with start_date > end_date ends with
\* InvalidRange (400) for every equipment id.
C7_InvalidRangeAlways ==
  (IsBookingCall /\ last.req.start_date > last.req.end_date)
    => last.status = 400

\* C7 amended: create_booking with start_date > end_date ends with
\* InvalidRange (400) when the equipment exists and with NotFound (404)
\* when it does not.
C7_InvalidRangeIfEquipmentExists ==
  (IsBookingCall /\ last.req.start_date > last.req.end_date)
    => last.status = IF EquipmentExists(equipment, last.req.equipment_id) THEN 400 ELSE 404

\* A reversed range is refused with 400 although it touches a booking.
C7_Witness ==
  /\ IsBookingCall /\ last.status = 400
  /\ \E i \in DOMAIN bookings : bookings[i].equipment_id = last.req.equipment_id

\* C8: a persisted booking stays in the store unchanged under every
\* operation, and every booking has status "confirmed".
C8_BookingsPermanent ==
  [][/\ Len(bookings') >= Len(bookings)
     /\ \A i \in DOMAIN bookings : bookings'[i] = bookings[i]
     /\ \A i \in DOMAIN bookings' : bookings'[i].status = "confirmed"]_vars

\* Two bookings are persisted and a later operation has answered.
C8_Witness ==
  /\ Len(bookings) = 2
  /\ last.op \in {"read_bookings", "receive_message", "create_equipment"}

\* C9: the handshake answers 200 with the supplied challenge exactly when
\* mode is "subscribe" and the token is the configured secret, and 403 in
\* every other case.
C9_VerifyHandshake ==
  last.op = "verify_webhook" =>
    /\ last.status \in {200, 403}
    /\ last.status = 200 <=>
         (last.req.mode = "subscribe" /\ last.req.token = VERIFY_TOKEN)
    /\ (last.status = 200 /\ last.req.challenge # None)
         => last.body = last.req.challenge

C9_Witness ==
  /\ last.op = "verify_webhook"
  /\ last.status = 200
  /\ last.body = "XYZ"

\* C10: POST /webhook answers 200 for every body and every outcome of the
\* outbound send.
C10_ReceiveAlwaysOk ==
  last.op = "receive_message" => last.status = 200

\* C11: a create_booking call that ends with 404, 400 or 409 leaves both
\* stores as they were; a successful call changes nothing at its overlap
\* query and at its commit adds exactly one booking, the one it returns,
\* after the bookings already persisted, and leaves the equipment alone.
C11_CreateBookingFrame ==
  [][/\ (last'.op = "create_booking" /\ last'.status # 200 /\ pc' = pc)
         => (bookings' = bookings /\ equipment' = equipment)
     /\ (\E p \in Procs : pc[p] = "idle" /\ pc'[p] = "commit")
         => (bookings' = bookings /\ equipment' = equipment)
     /\ (\E p \in Procs : pc[p] = "commit" /\ pc'[p] = "idle")
         => /\ last'.op = "create_booking" /\ last'.status = 200
            /\ equipment' = equipment
            /\ Len(bookings') = Len(bookings) + 1
            /\ SubSeq(bookings', 1, Len(bookings)) = bookings
            /\ bookings'[Len(bookings')] = last'.body]_vars

\* A request was refused with Conflict while another session is between
\* its overlap query and its commit.
C11_Witness ==
  /\ IsBookingCall /\ last.status = 409
  /\ Len(bookings) = 1
  /\ \E p \in Procs : pc[p] = "commit"

\* The operations other than create_equipment and create_booking.
ReadOnlyOps ==
  {"read_root", "read_equipment_list", "read_equipment", "read_bookings",
   "verify_webhook", "receive_message"}

\* C12: a step that ends with the response of an operation other than
\* create_equipment and create_booking leaves the equipment store and the
\* booking store unchanged, whatever the sessions of create_booking are
\* doing.
C12_ReadOnlyOperations ==
  [][last'.op \in ReadOnlyOps => (equipment' = equipment /\ bookings' = bookings)]_vars

\* The webhook answered while a booking is persisted and a create_booking
\* session is between its overlap query and its commit.
C12_Witness ==
  /\ last.op = "receive_message"
  /\ Len(bookings) = 1
  /\ \E p \in Procs : pc[p] = "commit"

\* The body parses to a message object with a sender id.
HasSender(b) ==
  /\ b.t = "dict" /\ "entry" \in DOMAIN b.v
  /\ b.v.entry.t = "list" /\ Len(b.v.entry.v) > 0
  /\ b.v.entry.v[1].t = "dict" /\ "messaging" \in DOMAIN b.v.entry.v[1].v
  /\ b.v.entry.v[1].v.messaging.t = "list" /\ Len(b.v.entry.v[1].v.messaging.v) > 0
  /\ b.v.entry.v[1].v.messaging.v[1].t = "dict"
  /\ "sender" \in DOMAIN b.v.entry.v[1].v.messaging.v[1].v
  /\ b.v.entry.v[1].v.messaging.v[1].v.sender.t = "dict"
  /\ "id" \in DOMAIN b.v.entry.v[1].v.messaging.v[1].v.sender.v

MessageObj(b) == b.v.entry.v[1].v.messaging.v[1].v

\* The body parses to a sender id and a text message.
HasText(b) ==
  /\ HasSender(b)
  /\ "message" \in DOMAIN MessageObj(b)
  /\ MessageObj(b).message.t = "dict"
  /\ "text" \in DOMAIN MessageObj(b).message.v
  /\ MessageObj(b).message.v.text.t = "str"

\* The replies of the first rule, in the order price, availability,
\* greeting, fallback, that matches a lower-cased text.
FirstRuleReplies(text) ==
  IF \E i \in DOMAIN PriceKeywords : IsSubstring(PriceKeywords[i], text)
    THEN {"price", "ask_name"}
  ELSE IF \E i \in DOMAIN AvailabilityKeywords : IsSubstring(AvailabilityKeywords[i], text)
    THEN {"availability"}
  ELSE IF \E i \in DOMAIN GreetingKeywords : IsSubstring(GreetingKeywords[i], text)
    THEN {"greeting"}
  ELSE {"fallback"}

\* C13: an event that parses to a sender id and a text message hands
\* exactly one reply for that sender to send_instagram_message, the reply
\* of the first matching rule in the order price, availability, greeting,
\* fallback; an event without a text message hands over none.
C13_OneReplyByFirstRule ==
  last.op = "receive_message" =>
    LET b == Envelopes[last.req] IN
    IF HasText(b)
      THEN /\ Len(last.body.sent) = 1
           /\ last.body.sent[1].to = MessageObj(b).sender.v.id
           /\ last.body.sent[1].reply.kind
                \in FirstRuleReplies(Lower(MessageObj(b).message.v.text.v))
      ELSE last.body.sent = <<>>

\* A text with a greeting keyword and a price keyword got a price reply.
C13_Witness ==
  /\ last.op = "receive_message"
  /\ HasText(Envelopes[last.req])
  /\ LET text == Lower(MessageObj(Envelopes[last.req]).message.v.text.v) IN
       /\ IsSubstring(<<"h","o","l","a">>, text)
       /\ IsSubstring(<<"c","o","s","t","o">>, text)
  /\ Len(last.body.sent) = 1
  /\ last.body.sent[1].reply.kind \in {"price", "ask_name"}


\* C14: in one run of post_to_instagram the publish-container call is made
\* only after the create-container call has succeeded, each of the two
\* Graph API calls is made at most once, and a failed create-container call
\* ends the routine with no publish-container call.
C14_CreateThenPublishOnce ==
  /\ publisher.calls \in {<<>>, <<"create">>, <<"create", "publish">>}
  /\ publisher.calls = <<"create", "publish">> => publisher.creation = "ok"
  /\ publisher.pc = "publish" => publisher.creation = "ok"
  /\ publisher.creation \notin {"none", "ok"}
       => publisher.calls = <<"create">> /\ publisher.pc \in {"done", "crashed"}

C14_Witness ==
  /\ publisher.calls = <<"create", "publish">>
  /\ publisher.creation = "ok"
  /\ publisher.pc = "done"

\* The catalogue holds an item whose category is the category of the day.
TodayCategoryInCatalogue ==
  \E k \in DOMAIN equipment : Lower(equipment[k].category) = Lower(TodayCategory(publisher.day))

\* C15: the publisher falls back to the whole catalogue only when today's
\* category is empty: whenever the catalogue holds an item of the category
\* of the day, the item selected for posting belongs to that category.
C15_SelectedFromTodayCategory ==
  (PublisherRunning /\ TodayCategoryInCatalogue)
    => /\ ~publisher.fell_back
       /\ publisher.selected # <<>>
            => Lower(publisher.selected[1].category) = Lower(TodayCategory(publisher.day))

====
